---- MODULE Spec2Model ----
(***************************************************************************)
(* SIR epidemic on a periodic rectilinear lattice, stepped by a kinetic    *)
(* Monte Carlo engine (src/world).  Cells are numbered in construction     *)
(* order (the flattened _cell_map_2d): cell id = x * n_y + y.  Rates use   *)
(* exact integer arithmetic (integer alpha and beta); simulated time is    *)
(* counted in ticks.                                                       *)
(*                                                                         *)
(*   Spec     seeding, engine steps and reset, called by a driver          *)
(*   SpecRun  seeding, reset and Network.run with an observer              *)
(*   SpecSet  direct assignments to Cell.state, and reset                  *)
(***************************************************************************)
EXTENDS Integers, Sequences, FiniteSets, TLC

VARIABLES
    n_x, n_y,            \* Rectilinear2DNetwork.n_x, n_y
    ALPHA, BETA,         \* Network.ALPHA, Network.BETA
    INFECTION_TIME,      \* Network.INFECTION_TIME (tau)
    neighbours,          \* Cell._neighbours, per cell: sequence of cell ids
    state,               \* Cell._state, per cell
    remove_at_time,      \* Cell._remove_at_time, per cell
    n_infected,          \* Cell._n_infected_neighbours, per cell
    rate,                \* Cell._rate_of_getting_infected, per cell
    is_safe,             \* Cell._is_safe, per cell
    cells_by_state,      \* Network._cells_by_state: state -> sequence of cells
    sum_rates,           \* Network._sum_rates
    time,                \* Network.time
    extinct,             \* Network.extinct
    shader_x, shader_y,  \* Rectilinear2DNetwork._shader_x, _shader_y
    pc,                  \* position of the caller inside Network.run
    obs,                 \* what the observer of the current run has seen, and how run was entered
    last                 \* the operation that produced the current state

cellVars == <<neighbours, state, remove_at_time, n_infected, rate, is_safe>>
netVars == <<cells_by_state, sum_rates, time, extinct, shader_x, shader_y>>
paramVars == <<n_x, n_y, ALPHA, BETA, INFECTION_TIME>>
vars == <<paramVars, cellVars, netVars, pc, obs, last>>

----------------------------------------------------------------------------
(* Bounds of the model. *)

\* largest finite sampled delta_t (ticks); at least the largest tau of Configs,
\* so that a draw beyond the next removal deadline is always among the choices
MaxDt == 2
\* seeding is only explored while the new removal deadline is <= MaxTime
MaxTime == 4
\* infection events are only explored while fewer than MaxOutbreak cells are I or R
MaxOutbreak == 4
\* direct assignments to Cell.state are only explored while every
\* infected-neighbour count stays within -MaxCount..MaxCount and the rate sum
\* within -MaxRateSum..MaxRateSum
MaxCount == 2
MaxRateSum == 6
\* a CallbacksGroup is built from lists of at most MaxMembers callbacks, and
\* its methods are only explored while the log of forwarded calls has at
\* most MaxLog entries
MaxMembers == 2
MaxLog == 4
\* rewire_network is only explored while the pairs rewired since
\* construction number at most MaxPairs
MaxPairs == 2
\* one tick of simulated time is Ulps units of floating-point rounding error
Ulps == 4

(* Program constants. *)

\* Cell._remove_at_time = None
NONE == -1
\* np.inf; larger than every finite time of the model
INF == 1000000

\* the lattices and disease parameters explored: <<n_x, n_y, alpha, beta, tau>>
SmallShapes == {<<1, 1>>, <<2, 1>>, <<1, 2>>, <<2, 2>>, <<1, 3>>, <<3, 2>>}
Configs ==
    {<<s[1], s[2], a, b, t>> : s \in SmallShapes, a \in {0, 1, 2}, b \in {-1, 0, 1}, t \in {0, 1, 2}}
    \cup {<<3, 3, a, b, t>> : a \in {0, 1}, b \in {-1, 0, 1}, t \in {0, 2}}
\* the subset explored together with direct assignments to Cell.state
SetConfigs == {<<1, 1, 1, 1, 1>>, <<2, 1, 1, 0, 2>>, <<1, 3, 1, 1, 1>>}
\* the lattices on which the state-change hook is called directly
HookConfigs == {<<1, 1, 1, 0, 1>>, <<2, 1, 1, 0, 1>>, <<1, 2, 1, 1, 2>>}
\* the subset explored together with the run loop
\* the lattices on which the epidemic queries are checked
QueryConfigs == {<<1, 1, 1, 0, 1>>, <<2, 1, 1, 0, 1>>, <<2, 2, 1, 0, 1>>, <<3, 2, 1, 0, 1>>, <<2, 3, 1, 0, 1>>}

\* the network handed to the callbacks of a group
GroupConfigs == {<<1, 1, 1, 0, 1>>}

\* the lattices that are rewired
RewireConfigs == {<<1, 1, 1, 0, 1>>, <<2, 1, 1, 1, 1>>, <<1, 3, 1, 0, 1>>, <<2, 2, 1, 1, 1>>}

RunConfigs ==
    {<<1, 1, 1, 0, 2>>, <<2, 1, 1, 0, 2>>, <<2, 2, 1, 1, 1>>, <<1, 3, 1, 1, 2>>,
     <<3, 3, 0, 0, 2>>, <<3, 3, 1, 1, 2>>, <<2, 2, 0, 0, 0>>}

States == {"S", "I", "R"}

----------------------------------------------------------------------------
(* Pure helpers. *)

Max(a, b) == IF a >= b THEN a ELSE b

RECURSIVE SumSeq(_)
SumSeq(s) == IF s = <<>> THEN 0 ELSE Head(s) + SumSeq(Tail(s))

RECURSIVE MinSeq(_)
MinSeq(s) == IF Len(s) = 1 THEN s[1]
             ELSE LET m == MinSeq(Tail(s)) IN IF s[1] <= m THEN s[1] ELSE m

\* Python zip(old, new) followed by sum(new - old): truncates to the shorter list
SumZipDiff(old, new) ==
    LET n == IF Len(old) <= Len(new) THEN Len(old) ELSE Len(new)
    IN  SumSeq([i \in 1..n |-> new[i] - old[i]])

\* `x in list`
InSeq(x, s) == \E i \in 1..Len(s) : s[i] = x

\* list.remove(x): drops the first occurrence
RemoveFirst(s, x) ==
    LET i == CHOOSE k \in 1..Len(s) : s[k] = x /\ \A j \in 1..(k - 1) : s[j] # x
    IN  [k \in 1..(Len(s) - 1) |-> IF k < i THEN s[k] ELSE s[k + 1]]

\* rate < 1e-10 on integer rates
BelowEpsilon(r) == r <= 0
\* rate > 1e-10 on integer rates
AboveEpsilon(r) == r >= 1

----------------------------------------------------------------------------
(* Lattice geometry: Rectilinear2DNetwork. *)

NCells(nx, ny) == nx * ny
Cells == 0..(NCells(n_x, n_y) - 1)
CellAt(x, y, ny) == x * ny + y
XOf(c, ny) == c \div ny
YOf(c, ny) == c % ny

\* adjacent_cell_vectors with North twice and no South
adjacent_cell_vectors_no_south == << <<-1, 0>>, <<1, 0>>, <<0, 1>>, <<0, 1>> >>

adjacent_cell_vectors == << <<-1, 0>>, <<1, 0>>, <<0, 1>>, <<0, -1>> >>

wrap_periodic(x, y, nx, ny) == <<x % nx, y % ny>>

adjacent_cell_coords(x, y, nx, ny) ==
    [i \in 1..4 |-> wrap_periodic(x + adjacent_cell_vectors[i][1],
                                  y + adjacent_cell_vectors[i][2], nx, ny)]

\* generate_cells: every cell, in construction order, is appended to the
\* neighbour list of each of its four adjacent cells (one append per direction)
generate_cells(nx, ny) ==
    LET appends == [k \in 1..(4 * NCells(nx, ny)) |->
                      LET c == (k - 1) \div 4
                          p == adjacent_cell_coords(XOf(c, ny), YOf(c, ny), nx, ny)[((k - 1) % 4) + 1]
                      IN  <<CellAt(p[1], p[2], ny), c>>]
        into(d) == SelectSeq(appends, LAMBDA a : a[1] = d)
    IN  [d \in 0..(NCells(nx, ny) - 1) |-> [i \in 1..Len(into(d)) |-> into(d)[i][2]]]

\* the list of all cells, Network._cells
AllCells(nx, ny) == [i \in 1..NCells(nx, ny) |-> i - 1]

----------------------------------------------------------------------------
(* The network as one value, so that the setters can be composed. *)

Net ==
    [neighbours |-> neighbours, state |-> state, remove_at_time |-> remove_at_time,
     n_infected |-> n_infected, rate |-> rate, is_safe |-> is_safe,
     cells_by_state |-> cells_by_state, sum_rates |-> sum_rates, time |-> time,
     extinct |-> extinct, shader_x |-> shader_x, shader_y |-> shader_y,
     n_y |-> n_y, ALPHA |-> ALPHA, BETA |-> BETA, INFECTION_TIME |-> INFECTION_TIME]

\* set_n_infected_neighbours with the synergy term counting all k neighbours
\* instead of the k - 1 others
set_n_infected_neighbours_synergy_k(n, d, new_value) ==
    LET rate_per_neighbour == n.ALPHA + (n.BETA * new_value)
        r == IF n.state[d] = "S" THEN Max(0, new_value * rate_per_neighbour) ELSE 0
    IN  [n EXCEPT !.n_infected[d] = new_value, !.rate[d] = r, !.is_safe[d] = BelowEpsilon(r)]

\* Cell.n_infected_neighbours setter: stores the count, recomputes the rate
\* (zero unless the cell is S) and the safe flag
set_n_infected_neighbours(n, d, new_value) ==
    LET rate_per_neighbour == n.ALPHA + (n.BETA * (new_value - 1))
        r == IF n.state[d] = "S" THEN Max(0, new_value * rate_per_neighbour) ELSE 0
    IN  [n EXCEPT !.n_infected[d] = new_value, !.rate[d] = r, !.is_safe[d] = BelowEpsilon(r)]

\* for neighbour in self._neighbours: neighbour.n_infected_neighbours += delta
RECURSIVE bump_neighbours(_, _, _)
bump_neighbours(n, nbs, delta) ==
    IF nbs = <<>> THEN n
    ELSE bump_neighbours(set_n_infected_neighbours(n, Head(nbs), n.n_infected[Head(nbs)] + delta),
                         Tail(nbs), delta)

\* [cell.rate_of_getting_infected for cell in self._neighbours if cell.state == State.S]
neighbour_rates(n, c) ==
    LET s == SelectSeq(n.neighbours[c], LAMBDA d : n.state[d] = "S")
    IN  [i \in 1..Len(s) |-> n.rate[s[i]]]

\* base_cell_state_changed that forgets to take the cell out of its old list
base_cell_state_changed_keep_old(n, c, old_state, new_state) ==
    IF old_state = new_state THEN n
    ELSE LET news == n.cells_by_state[new_state]
         IN  IF ~InSeq(c, news)
             THEN [n EXCEPT !.cells_by_state[new_state] = Append(news, c)]
             ELSE n

\* base_cell_state_changed that inserts at the front of the new list
base_cell_state_changed_prepend(n, c, old_state, new_state) ==
    IF old_state = new_state THEN n
    ELSE LET olds == n.cells_by_state[old_state]
             n1 == IF InSeq(c, olds)
                   THEN [n EXCEPT !.cells_by_state[old_state] = RemoveFirst(olds, c)]
                   ELSE n
             news == n1.cells_by_state[new_state]
         IN  IF ~InSeq(c, news)
             THEN [n1 EXCEPT !.cells_by_state[new_state] = <<c>> \o news]
             ELSE n1

\* Network.cell_state_changed: move the cell between the per-state lists
base_cell_state_changed(n, c, old_state, new_state) ==
    IF old_state = new_state THEN n
    ELSE LET olds == n.cells_by_state[old_state]
             n1 == IF InSeq(c, olds)
                   THEN [n EXCEPT !.cells_by_state[old_state] = RemoveFirst(olds, c)]
                   ELSE n
             news == n1.cells_by_state[new_state]
         IN  IF ~InSeq(c, news)
             THEN [n1 EXCEPT !.cells_by_state[new_state] = Append(news, c)]
             ELSE n1

\* the logger.error calls of Network.cell_state_changed, in order
cell_state_changed_errors(n, c, old_state, new_state) ==
    IF old_state = new_state THEN <<>>
    ELSE (IF InSeq(c, n.cells_by_state[old_state]) THEN <<>>
          ELSE << <<"did not exist in", old_state>> >>)
         \o (IF InSeq(c, n.cells_by_state[new_state])
             THEN << <<"already existed in", new_state>> >>
             ELSE <<>>)

\* cell_state_changed that tracks the x shader only
cell_state_changed_x_only(n, c, old_state, new_state) ==
    LET n1 == IF new_state = "I"
              THEN [n EXCEPT !.shader_x[XOf(c, n.n_y)] = TRUE]
              ELSE n
    IN  base_cell_state_changed(n1, c, old_state, new_state)

\* Rectilinear2DNetwork.cell_state_changed: track the shaders, then the base hook
cell_state_changed(n, c, old_state, new_state) ==
    LET n1 == IF new_state = "I"
              THEN [n EXCEPT !.shader_x[XOf(c, n.n_y)] = TRUE, !.shader_y[YOf(c, n.n_y)] = TRUE]
              ELSE n
    IN  base_cell_state_changed(n1, c, old_state, new_state)

\* Cell.state setter that leaves the neighbours' rate changes out of the
\* global rate sum
set_state_own_rate_only(n, c, new_state) ==
    IF n.state[c] = new_state THEN n
    ELSE LET old_rate == n.rate[c]
             old_state == n.state[c]
             n1 == [n EXCEPT !.state[c] = new_state]
             n2 == IF new_state = "S" THEN n1
                   ELSE IF new_state = "I"
                   THEN bump_neighbours(
                            [n1 EXCEPT !.remove_at_time[c] = n1.time + n1.INFECTION_TIME,
                                       !.rate[c] = 0],
                            n1.neighbours[c], 1)
                   ELSE bump_neighbours(
                            [n1 EXCEPT !.remove_at_time[c] = INF, !.rate[c] = 0],
                            n1.neighbours[c], -1)
             n3 == cell_state_changed(n2, c, old_state, new_state)
         IN  [n3 EXCEPT !.sum_rates = @ + (n3.rate[c] - old_rate)]

\* Cell.state setter whose R branch does not decrement the neighbours' counts
set_state_removal_keeps_counts(n, c, new_state) ==
    IF n.state[c] = new_state THEN n
    ELSE LET old_neighbour_rates == neighbour_rates(n, c)
             old_rate == n.rate[c]
             old_state == n.state[c]
             n1 == [n EXCEPT !.state[c] = new_state]
             n2 == IF new_state = "S" THEN n1
                   ELSE IF new_state = "I"
                   THEN bump_neighbours(
                            [n1 EXCEPT !.remove_at_time[c] = n1.time + n1.INFECTION_TIME,
                                       !.rate[c] = 0],
                            n1.neighbours[c], 1)
                   ELSE [n1 EXCEPT !.remove_at_time[c] = INF, !.rate[c] = 0]
             n3 == cell_state_changed(n2, c, old_state, new_state)
             n4 == [n3 EXCEPT !.sum_rates = @ + (n3.rate[c] - old_rate)]
             new_neighbour_rates == neighbour_rates(n4, c)
             difference_rates == SumZipDiff(old_neighbour_rates, new_neighbour_rates)
         IN  [n4 EXCEPT !.sum_rates = @ + difference_rates]

\* Cell.state setter
set_state(n, c, new_state) ==
    IF n.state[c] = new_state THEN n
    ELSE LET old_neighbour_rates == neighbour_rates(n, c)
             old_rate == n.rate[c]
             old_state == n.state[c]
             n1 == [n EXCEPT !.state[c] = new_state]
             n2 == IF new_state = "S" THEN n1
                   ELSE IF new_state = "I"
                   THEN bump_neighbours(
                            [n1 EXCEPT !.remove_at_time[c] = n1.time + n1.INFECTION_TIME,
                                       !.rate[c] = 0],
                            n1.neighbours[c], 1)
                   ELSE bump_neighbours(
                            [n1 EXCEPT !.remove_at_time[c] = INF, !.rate[c] = 0],
                            n1.neighbours[c], -1)
             n3 == cell_state_changed(n2, c, old_state, new_state)
             n4 == [n3 EXCEPT !.sum_rates = @ + (n3.rate[c] - old_rate)]
             new_neighbour_rates == neighbour_rates(n4, c)
             difference_rates == SumZipDiff(old_neighbour_rates, new_neighbour_rates)
         IN  [n4 EXCEPT !.sum_rates = @ + difference_rates]

\* the current state becomes the network value n (parameters and topology stay)
Becomes(n) ==
    /\ state' = n.state
    /\ remove_at_time' = n.remove_at_time
    /\ n_infected' = n.n_infected
    /\ rate' = n.rate
    /\ is_safe' = n.is_safe
    /\ cells_by_state' = n.cells_by_state
    /\ sum_rates' = n.sum_rates
    /\ time' = n.time
    /\ extinct' = n.extinct
    /\ shader_x' = n.shader_x
    /\ shader_y' = n.shader_y
    /\ UNCHANGED <<paramVars, neighbours>>

----------------------------------------------------------------------------
(* Derived views of Network. *)

infected_cells == cells_by_state["I"]
removed_cells == cells_by_state["R"]
safe_cells == SelectSeq(cells_by_state["S"], LAMBDA c : is_safe[c])
threatened_cells == SelectSeq(cells_by_state["S"], LAMBDA c : ~is_safe[c])
next_remove_time == MinSeq([i \in 1..Len(infected_cells) |-> remove_at_time[infected_cells[i]]])
sum_events_rates == sum_rates

\* all(self._shader_x), all(self._shader_y): True for an empty array
AllOf(shader) == \A i \in DOMAIN shader : shader[i]

\* EpidemicType2D
OneDimensionalType == "1D"
TwoDimensionalType == "2D"
NoType == "None"

\* the outcome of a call: `return value`, or `raise error`
Return(value) == [raised |-> "", value |-> value]
Raise(error) == [raised |-> error, value |-> FALSE]

\* is_epidemic_of whose one-dimensional test is `or` in place of `!=`
is_epidemic_of_either(sx, sy, type) ==
    IF type = OneDimensionalType THEN Return(AllOf(sx) \/ AllOf(sy))
    ELSE IF type = TwoDimensionalType THEN Return(AllOf(sx) /\ AllOf(sy))
    ELSE Raise("NotImplementedError")

\* Rectilinear2DNetwork.is_epidemic over given shader arrays
is_epidemic_of(sx, sy, type) ==
    IF type = OneDimensionalType THEN Return(AllOf(sx) # AllOf(sy))
    ELSE IF type = TwoDimensionalType THEN Return(AllOf(sx) /\ AllOf(sy))
    ELSE Raise("NotImplementedError")

\* Rectilinear2DNetwork.epidemic_type over given shader arrays
epidemic_type_of(sx, sy) ==
    LET epidemic_x == AllOf(sx)
        epidemic_y == AllOf(sy)
    IN  IF epidemic_x # epidemic_y THEN OneDimensionalType
        ELSE IF epidemic_x /\ epidemic_y THEN TwoDimensionalType
        ELSE NoType

is_epidemic(type) == is_epidemic_of(shader_x, shader_y, type)
epidemic_type == epidemic_type_of(shader_x, shader_y)

\* int(n_x / 2), int(n_y / 2)
CentreCell == CellAt(n_x \div 2, n_y \div 2, n_y)

\* the error, in units of rounding, of the float
\* remove_at_time - INFECTION_TIME against the time t at which the cell was
\* infected, remove_at_time being the float t + INFECTION_TIME: none for the
\* centre, which is seeded, and none at t = 0; up to one unit either way for
\* a cell infected by an engine step at a sampled time t > 0
RoundOff(c) ==
    IF c = CentreCell \/ remove_at_time[c] = INFECTION_TIME THEN {0} ELSE {-1, 0, 1}

\* Cell.array_value as the fractions num / den it can evaluate to
array_value(c) ==
    IF state[c] = "S" THEN {[num |-> 0, den |-> 1]}
    ELSE IF state[c] = "R" THEN {[num |-> 1, den |-> 1]}
    ELSE {LET infected_time == (remove_at_time[c] - INFECTION_TIME) * Ulps + e
          IN  [num |-> time * Ulps - infected_time, den |-> INFECTION_TIME * Ulps] :
            e \in RoundOff(c)}

\* Rectilinear2DNetwork.to_array: the values of all cells
to_array == UNION {array_value(c) : c \in Cells}

\* Snapshot.infected_times, one cell: None for a cell without a removal
\* deadline, else the float remove_at_time - INFECTION_TIME in units of
\* 1/Ulps (inf - tau is inf)
infected_times(c) ==
    IF remove_at_time[c] = NONE THEN {NONE}
    ELSE IF remove_at_time[c] = INF THEN {INF}
    ELSE {(remove_at_time[c] - INFECTION_TIME) * Ulps + e : e \in RoundOff(c)}

----------------------------------------------------------------------------
(* Construction. *)

\* the observers a run is given: any Callback (its answers are its own
\* business) or EarlyStoppingCallback(epidemic_type) of a known type
CallbackKinds == {"Callback", OneDimensionalType, TwoDimensionalType}

\* no rewire_network call yet
NoRewire == [probability |-> 0, left |-> 0, pairs |-> 0, before |-> <<>>,
             from |-> NONE, to |-> NONE, success |-> TRUE]

NoObs == [started |-> 0, steps |-> 0, changes |-> 0, events |-> 0, queries |-> 0, finished |-> 0, stop |-> FALSE,
          callback |-> "Callback", entry_time |-> 0,
          arg |-> [type |-> "NoneType", value |-> <<>>], members |-> <<>>, answers |-> <<>>, log |-> <<>>,
          rewire |-> NoRewire]

\* the network constructed for one of the configurations, with the
\* neighbour lists topology[cfg]
InitTopology(configs, topology) ==
    \E cfg \in configs :
        /\ n_x = cfg[1]
        /\ n_y = cfg[2]
        /\ ALPHA = cfg[3]
        /\ BETA = cfg[4]
        /\ INFECTION_TIME = cfg[5]
        /\ neighbours = topology[cfg]
        /\ state = [c \in 0..(NCells(cfg[1], cfg[2]) - 1) |-> "S"]
        /\ remove_at_time = [c \in 0..(NCells(cfg[1], cfg[2]) - 1) |-> NONE]
        /\ n_infected = [c \in 0..(NCells(cfg[1], cfg[2]) - 1) |-> 0]
        /\ rate = [c \in 0..(NCells(cfg[1], cfg[2]) - 1) |-> 0]
        /\ is_safe = [c \in 0..(NCells(cfg[1], cfg[2]) - 1) |-> TRUE]
        /\ cells_by_state = [s \in States |-> IF s = "S" THEN AllCells(cfg[1], cfg[2]) ELSE <<>>]
        /\ sum_rates = 0
        /\ time = 0
        /\ extinct = FALSE
        /\ shader_x = [x \in 0..(cfg[1] - 1) |-> FALSE]
        /\ shader_y = [y \in 0..(cfg[2] - 1) |-> FALSE]
        /\ pc = "idle"
        /\ obs = NoObs
        /\ last = "init"

InitWith(configs) ==
    InitTopology(configs, [cfg \in configs |-> generate_cells(cfg[1], cfg[2])])

Init == InitWith(Configs)
InitRun == InitWith(RunConfigs)
InitSet == InitWith(SetConfigs)
InitQuery == InitWith(QueryConfigs)
InitGroup == InitWith(GroupConfigs)
InitHook == InitWith(HookConfigs)

----------------------------------------------------------------------------
(* Operations called directly on the network. *)

\* Rectilinear2DNetwork.start_infection_at_center
start_infection_at_center ==
    /\ pc = "idle"
    /\ time + INFECTION_TIME <= MaxTime
    /\ Becomes(set_state(Net, CentreCell, "I"))
    /\ last' = "seed"
    /\ UNCHANGED <<pc, obs>>

\* cell.state = new_state, by a caller holding any cell of the network
cell_state_assigned ==
    /\ pc = "idle"
    /\ \E c \in Cells, new_state \in States :
        LET n == set_state(Net, c, new_state)
        IN  /\ \A d \in Cells : n.n_infected[d] \in (-MaxCount)..MaxCount
            /\ n.sum_rates \in (-MaxRateSum)..MaxRateSum
            /\ Becomes(n)
    /\ last' = "set"
    /\ UNCHANGED <<pc, obs>>

\* network.cell_state_changed(cell, old_state, new_state), called directly
cell_state_changed_called ==
    /\ pc = "idle"
    /\ \E c \in Cells, old_state \in States, new_state \in States :
        /\ Becomes(cell_state_changed(Net, c, old_state, new_state))
        /\ obs' = [NoObs EXCEPT
                     !.arg = [type |-> "cell_state_changed", value |-> <<c, old_state, new_state>>],
                     !.log = cell_state_changed_errors(Net, c, old_state, new_state)]
    /\ last' = "cell_state_changed"
    /\ UNCHANGED pc

reset_base_only ==
    /\ pc = "idle"
    /\ time' = 0
    /\ extinct' = FALSE
    /\ sum_rates' = 0
    /\ state' = [c \in Cells |-> "S"]
    /\ remove_at_time' = [c \in Cells |-> NONE]
    /\ n_infected' = [c \in Cells |-> 0]
    /\ rate' = [c \in Cells |-> 0]
    /\ is_safe' = [c \in Cells |-> TRUE]
    /\ cells_by_state' = [s \in States |-> IF s = "S" THEN AllCells(n_x, n_y) ELSE <<>>]
    /\ last' = "reset"
    /\ UNCHANGED <<paramVars, neighbours, shader_x, shader_y, pc, obs>>

\* Cell.reset on every cell, Network.reset, Rectilinear2DNetwork.reset
reset ==
    /\ pc = "idle"
    /\ time' = 0
    /\ extinct' = FALSE
    /\ sum_rates' = 0
    /\ state' = [c \in Cells |-> "S"]
    /\ remove_at_time' = [c \in Cells |-> NONE]
    /\ n_infected' = [c \in Cells |-> 0]
    /\ rate' = [c \in Cells |-> 0]
    /\ is_safe' = [c \in Cells |-> TRUE]
    /\ cells_by_state' = [s \in States |-> IF s = "S" THEN AllCells(n_x, n_y) ELSE <<>>]
    /\ shader_x' = [x \in DOMAIN shader_x |-> FALSE]
    /\ shader_y' = [y \in DOMAIN shader_y |-> FALSE]
    /\ last' = "reset"
    /\ UNCHANGED <<paramVars, neighbours, pc, obs>>

----------------------------------------------------------------------------
(* KineticMonteCarloSimulation.step_forwards. *)

\* DeltaTs that samples a finite delta_t also when there is no rate
DeltaTs_always_sampled == 0..MaxDt

\* the values time + delta_t can be compared with: the sampled
\* (1 / sum_events_rates) * log(1 / U), U in (0, 1), is a float >= 0 (0 when
\* 1 / U rounds to 1); np.inf without rates
DeltaTs == IF AboveEpsilon(sum_events_rates) THEN 0..MaxDt ELSE {INF}

\* np.random.choice(threatened_cells, p=rates / sum_events_rates) raises
\* ValueError unless the list is non-empty and the probabilities sum to 1
ChoiceAccepted ==
    /\ threatened_cells # <<>>
    /\ SumSeq([i \in 1..Len(threatened_cells) |-> rate[threatened_cells[i]]]) = sum_events_rates

\* no infected cell: flag the extinction and return
step_extinct ==
    /\ Len(infected_cells) = 0
    /\ extinct' = TRUE
    /\ last' = "extinct"
    /\ UNCHANGED <<paramVars, cellVars, cells_by_state, sum_rates, time, shader_x, shader_y>>

\* removal event that does not move the clock to next_remove_time
step_remove_without_clock ==
    /\ Len(infected_cells) # 0
    /\ \E delta_t \in DeltaTs :
        /\ time + delta_t >= next_remove_time
        /\ Becomes(set_state(Net, infected_cells[1], "R"))
    /\ last' = "remove"

\* removal event: the first infected cell is removed at next_remove_time
step_remove ==
    /\ Len(infected_cells) # 0
    /\ \E delta_t \in DeltaTs :
        /\ time + delta_t >= next_remove_time
        /\ Becomes(set_state([Net EXCEPT !.time = next_remove_time], infected_cells[1], "R"))
    /\ last' = "remove"

\* step_infect taken without comparing time + delta_t with next_remove_time
step_infect_unguarded ==
    /\ Len(infected_cells) # 0
    /\ Len(infected_cells) + Len(removed_cells) < MaxOutbreak
    /\ \E delta_t \in DeltaTs :
        /\ delta_t # INF
        /\ ChoiceAccepted
        /\ \E i \in 1..Len(threatened_cells) :
            /\ rate[threatened_cells[i]] > 0
            /\ Becomes(set_state([Net EXCEPT !.time = time + delta_t], threatened_cells[i], "I"))
    /\ last' = "infect"

\* infection event: a threatened cell, drawn with positive probability, is infected
step_infect ==
    /\ Len(infected_cells) # 0
    /\ Len(infected_cells) + Len(removed_cells) < MaxOutbreak
    /\ \E delta_t \in DeltaTs :
        /\ time + delta_t < next_remove_time
        /\ ChoiceAccepted
        /\ \E i \in 1..Len(threatened_cells) :
            /\ rate[threatened_cells[i]] > 0
            /\ Becomes(set_state([Net EXCEPT !.time = time + delta_t], threatened_cells[i], "I"))
    /\ last' = "infect"

\* infection event whose draw is rejected: the time has already been advanced
step_choice_error ==
    /\ Len(infected_cells) # 0
    /\ \E delta_t \in DeltaTs :
        /\ time + delta_t < next_remove_time
        /\ ~ChoiceAccepted
        /\ time' = time + delta_t
    /\ last' = "choice_error"
    /\ UNCHANGED <<paramVars, cellVars, cells_by_state, sum_rates, extinct, shader_x, shader_y>>

step_forwards == step_extinct \/ step_remove \/ step_infect \/ step_choice_error

\* the engine called directly by a driver
Step ==
    /\ pc = "idle"
    /\ step_forwards
    /\ UNCHANGED <<pc, obs>>

----------------------------------------------------------------------------
(* Network.run, one action per statement that the observer can tell apart. *)

\* run() on a network without infected cells raises NetworkError
run_raise ==
    /\ pc = "idle"
    /\ Len(infected_cells) = 0
    /\ last' = "run_error"
    /\ UNCHANGED <<paramVars, cellVars, netVars, pc, obs>>

\* run_started without the check for infected cells
run_started_unchecked ==
    /\ pc = "idle"
    /\ \E callback \in CallbackKinds :
        obs' = [NoObs EXCEPT !.started = 1, !.callback = callback, !.entry_time = time]
    /\ pc' = "loop"
    /\ last' = "started"
    /\ UNCHANGED <<paramVars, cellVars, netVars>>

\* callback.on_simulation_started(self)
run_started ==
    /\ pc = "idle"
    /\ Len(infected_cells) # 0
    /\ \E callback \in CallbackKinds :
        obs' = [NoObs EXCEPT !.started = 1, !.callback = callback, !.entry_time = time]
    /\ pc' = "loop"
    /\ last' = "started"
    /\ UNCHANGED <<paramVars, cellVars, netVars>>

\* while not self.extinct: simulation.step_forwards(self)
\* (an exception of the step leaves run)
run_step ==
    /\ pc = "loop"
    /\ ~extinct
    /\ step_forwards
    /\ obs' = [obs EXCEPT !.steps = @ + 1,
                          !.changes = @ + (IF state' # state THEN 1 ELSE 0)]
    /\ pc' = IF last' = "choice_error" THEN "idle" ELSE "event"

\* callback.on_event_occurred(self)
run_event ==
    /\ pc = "event"
    /\ obs' = [obs EXCEPT !.events = @ + 1]
    /\ pc' = "query"
    /\ last' = "event"
    /\ UNCHANGED <<paramVars, cellVars, netVars>>

\* the answers callback.should_stop_simulation(self) can give:
\* EarlyStoppingCallback returns network.is_epidemic(self._epidemic_type)
should_stop_simulation(callback) ==
    IF callback = "Callback" THEN BOOLEAN ELSE {is_epidemic(callback).value}

\* if callback.should_stop_simulation(self): break
run_query ==
    /\ pc = "query"
    /\ \E answer \in should_stop_simulation(obs.callback) :
        /\ obs' = [obs EXCEPT !.queries = @ + 1, !.stop = answer]
        /\ pc' = IF answer THEN "finish" ELSE "loop"
    /\ last' = "query"
    /\ UNCHANGED <<paramVars, cellVars, netVars>>

\* the loop condition fails: leave the loop
run_exit ==
    /\ pc = "loop"
    /\ extinct
    /\ pc' = "finish"
    /\ last' = "exit"
    /\ UNCHANGED <<paramVars, cellVars, netVars, obs>>

\* callback.on_simulation_finished(self)
run_finished ==
    /\ pc = "finish"
    /\ obs' = [obs EXCEPT !.finished = @ + 1]
    /\ pc' = "idle"
    /\ last' = "finished"
    /\ UNCHANGED <<paramVars, cellVars, netVars>>

run == run_raise \/ run_started \/ run_step \/ run_event \/ run_query \/ run_exit \/ run_finished

----------------------------------------------------------------------------
(* The epidemic queries of Rectilinear2DNetwork. *)

\* the types is_epidemic is asked about: the two it knows and others
EpidemicTypes == {OneDimensionalType, TwoDimensionalType, NoType, "3D"}

\* cell.state = State.I on a susceptible cell, as start_infection_at_center
\* does for the centre
cell_infected ==
    /\ pc = "idle"
    /\ \E c \in Cells :
        /\ state[c] = "S"
        /\ Becomes(set_state(Net, c, "I"))
    /\ last' = "infected"
    /\ UNCHANGED <<pc, obs>>

\* network.is_epidemic(type): returns a bool or raises, changing nothing
is_epidemic_called ==
    /\ pc = "idle"
    /\ \E type \in EpidemicTypes :
        last' = IF is_epidemic(type).raised = "" THEN "is_epidemic" ELSE is_epidemic(type).raised
    /\ UNCHANGED <<paramVars, cellVars, netVars, pc, obs>>

\* network.epidemic_type(): returns a type, changing nothing
epidemic_type_called ==
    /\ pc = "idle"
    /\ last' = "epidemic_type"
    /\ UNCHANGED <<paramVars, cellVars, netVars, pc, obs>>

----------------------------------------------------------------------------
(* CallbacksGroup. *)

\* the member callbacks a group is built from
CallbackIds == 1..MaxMembers

\* the arguments of CallbacksGroup(callbacks): None, one Callback, or a list
GroupArgs ==
    {[type |-> "NoneType", value |-> <<>>]}
    \cup {[type |-> "Callback", value |-> <<c>>] : c \in CallbackIds}
    \cup {[type |-> "list", value |-> l] :
            l \in UNION {[1..k -> CallbackIds] : k \in 0..MaxMembers}}

\* CallbacksGroup.__init__: the value of self._callbacks
CallbacksGroup(callbacks) ==
    IF callbacks.type = "list" THEN callbacks.value
    ELSE IF callbacks.type = "Callback" THEN <<callbacks.value[1]>>
    ELSE <<>>

\* for callback in self._callbacks: callback.<method>(network)
forwarded(callbacks, method) ==
    [i \in 1..Len(callbacks) |-> <<method, callbacks[i]>>]

\* any(...) that is all(...)
any_all(answers) == \A i \in 1..Len(answers) : answers[i]

\* any(callback.should_stop_simulation(network) for callback in self._callbacks)
any(answers) == \E i \in 1..Len(answers) : answers[i]

\* the members any(...) asks: it stops at the first one that answers True
asked(callbacks, answers) ==
    LET upto == IF \E i \in 1..Len(answers) : answers[i]
                THEN CHOOSE i \in 1..Len(answers) :
                        answers[i] /\ \A j \in 1..(i - 1) : ~answers[j]
                ELSE Len(callbacks)
    IN  SubSeq(callbacks, 1, upto)

group_constructed ==
    /\ pc = "idle"
    /\ \E callbacks \in GroupArgs :
        obs' = [NoObs EXCEPT !.arg = callbacks, !.members = CallbacksGroup(callbacks)]
    /\ last' = "CallbacksGroup"
    /\ UNCHANGED <<paramVars, cellVars, netVars, pc>>

\* on_simulation_started, on_event_occurred, on_simulation_finished of the group
group_notified ==
    /\ pc = "idle"
    /\ Len(obs.log) + Len(obs.members) <= MaxLog
    /\ \E method \in {"on_simulation_started", "on_event_occurred", "on_simulation_finished"} :
        /\ obs' = [obs EXCEPT !.log = @ \o forwarded(obs.members, method)]
        /\ last' = method
    /\ UNCHANGED <<paramVars, cellVars, netVars, pc>>

\* should_stop_simulation of the group; answers[i] is what member i answers
\* when it is asked
group_should_stop_simulation ==
    /\ pc = "idle"
    /\ Len(obs.log) + Len(obs.members) <= MaxLog
    /\ \E answers \in [1..Len(obs.members) -> BOOLEAN] :
        obs' = [obs EXCEPT !.answers = answers,
                           !.stop = any(answers),
                           !.log = @ \o forwarded(asked(obs.members, answers), "should_stop_simulation")]
    /\ last' = "should_stop_simulation"
    /\ UNCHANGED <<paramVars, cellVars, netVars, pc>>

----------------------------------------------------------------------------
(* rewire_network and Cell.rewire_to_neighbour. *)

\* the probabilities rewire_network is called with, in percent
Probabilities == {0, 50, 100}

\* np.random.binomial(n_cells, probability)
binomial(n, probability) ==
    IF probability = 0 THEN {0} ELSE IF probability = 100 THEN {n} ELSE 0..n

\* rewire_to_neighbour that adds the new edge without detaching an old one
rewire_to_neighbour_add_only(nb, self, new_cell, _replace) ==
    LET n3 == [nb EXCEPT ![self] = Append(@, new_cell)]
        n4 == [n3 EXCEPT ![new_cell] = Append(@, self)]
    IN  [neighbours |-> n4, raised |-> ""]

\* rewire_to_neighbour whose new edge is entered in the list of `self` only
rewire_to_neighbour_one_way(nb, self, new_cell, _replace) ==
    LET n1 == [nb EXCEPT ![self] = RemoveFirst(@, _replace)]
    IN  IF ~InSeq(self, n1[_replace])
        THEN [neighbours |-> n1, raised |-> "ValueError"]
        ELSE LET n2 == [n1 EXCEPT ![_replace] = RemoveFirst(@, self)]
                 n3 == [n2 EXCEPT ![self] = Append(@, new_cell)]
             IN  [neighbours |-> n3, raised |-> ""]

\* Cell.rewire_to_neighbour(new_cell, replace=True) of cell `self` on the
\* neighbour lists nb, with _replace the neighbour np.random.choice drew;
\* list.remove raises ValueError when the value is not in the list, after
\* the first removal has been made
rewire_to_neighbour(nb, self, new_cell, _replace) ==
    LET n1 == [nb EXCEPT ![self] = RemoveFirst(@, _replace)]
    IN  IF ~InSeq(self, n1[_replace])
        THEN [neighbours |-> n1, raised |-> "ValueError"]
        ELSE LET n2 == [n1 EXCEPT ![_replace] = RemoveFirst(@, self)]
                 n3 == [n2 EXCEPT ![self] = Append(@, new_cell)]
                 n4 == [n3 EXCEPT ![new_cell] = Append(@, self)]
             IN  [neighbours |-> n4, raised |-> ""]

\* draws (from_index, to_index, _replace) of earlier rewirings of the 2 by 2
\* lattice that detach every edge of its last cell
IsolatingDraws == << <<1, 0, 3>>, <<1, 0, 3>>, <<2, 0, 3>>, <<2, 0, 3>> >>

\* the neighbour lists after the loop of rewire_network has rewired the
\* drawn pairs in turn
RECURSIVE rewired_by(_, _)
rewired_by(nb, draws) ==
    IF draws = <<>> THEN nb
    ELSE rewired_by(rewire_to_neighbour(nb, draws[1][1], draws[1][2], draws[1][3]).neighbours,
                    Tail(draws))

\* a lattice rewired before, one of whose cells has no neighbour left
isolated_cell_lattice(nx, ny) == rewired_by(generate_cells(nx, ny), IsolatingDraws)

\* the lattices as constructed, and the 2 by 2 lattice rewired before
InitRewire ==
    \/ InitWith(RewireConfigs)
    \/ InitTopology({<<2, 2, 1, 1, 1>>},
                    [cfg \in {<<2, 2, 1, 1, 1>>} |-> isolated_cell_lattice(cfg[1], cfg[2])])

\* rewire_network(network, probability) up to the loop over the drawn pairs
rewire_network_called ==
    /\ pc = "idle"
    /\ \E probability \in Probabilities :
        \E n_cells_to_rewire \in binomial(NCells(n_x, n_y), probability) :
            /\ obs.rewire.pairs + n_cells_to_rewire <= MaxPairs
            /\ obs' = [obs EXCEPT !.rewire = [@ EXCEPT !.probability = probability,
                                                        !.left = n_cells_to_rewire,
                                                        !.before = neighbours,
                                                        !.from = NONE, !.to = NONE,
                                                        !.success = TRUE]]
    /\ pc' = "rewire"
    /\ last' = "rewire_network"
    /\ UNCHANGED <<paramVars, cellVars, netVars>>

\* rewire_pair that recounts the infected neighbours over the new lists
rewire_pair_recounting ==
    /\ pc = "rewire"
    /\ obs.rewire.left > 0
    /\ \E from_index \in Cells, to_index \in Cells :
        \/ /\ Len(neighbours[from_index]) = 0
           /\ UNCHANGED neighbours
           /\ obs' = [obs EXCEPT !.rewire = [@ EXCEPT !.left = @ - 1, !.pairs = @ + 1,
                                                       !.from = from_index, !.to = to_index,
                                                       !.success = FALSE]]
           /\ pc' = "rewire"
           /\ last' = "rewire_pair"
        \/ /\ Len(neighbours[from_index]) # 0
           /\ \E i \in 1..Len(neighbours[from_index]) :
                LET done == rewire_to_neighbour(neighbours, from_index, to_index,
                                                neighbours[from_index][i])
                IN  /\ neighbours' = done.neighbours
                    /\ obs' = [obs EXCEPT !.rewire = [@ EXCEPT !.left = @ - 1, !.pairs = @ + 1,
                                                                !.from = from_index, !.to = to_index,
                                                                !.success = TRUE]]
                    /\ pc' = IF done.raised = "" THEN "rewire" ELSE "idle"
                    /\ last' = IF done.raised = "" THEN "rewire_pair" ELSE "rewire_error"
    /\ n_infected' = [c \in Cells |->
            Cardinality({k \in 1..Len(neighbours'[c]) : state[neighbours'[c][k]] = "I"})]
    /\ UNCHANGED <<paramVars, state, remove_at_time, rate, is_safe, netVars>>

\* one pass of the loop: success = _from.rewire_to_neighbour(_to); a False
\* result only prints a warning, an exception leaves rewire_network
rewire_pair ==
    /\ pc = "rewire"
    /\ obs.rewire.left > 0
    /\ \E from_index \in Cells, to_index \in Cells :
        \/ /\ Len(neighbours[from_index]) = 0
           /\ UNCHANGED neighbours
           /\ obs' = [obs EXCEPT !.rewire = [@ EXCEPT !.left = @ - 1, !.pairs = @ + 1,
                                                       !.from = from_index, !.to = to_index,
                                                       !.success = FALSE]]
           /\ pc' = "rewire"
           /\ last' = "rewire_pair"
        \/ /\ Len(neighbours[from_index]) # 0
           /\ \E i \in 1..Len(neighbours[from_index]) :
                LET done == rewire_to_neighbour(neighbours, from_index, to_index,
                                                neighbours[from_index][i])
                IN  /\ neighbours' = done.neighbours
                    /\ obs' = [obs EXCEPT !.rewire = [@ EXCEPT !.left = @ - 1, !.pairs = @ + 1,
                                                                !.from = from_index, !.to = to_index,
                                                                !.success = TRUE]]
                    /\ pc' = IF done.raised = "" THEN "rewire" ELSE "idle"
                    /\ last' = IF done.raised = "" THEN "rewire_pair" ELSE "rewire_error"
    /\ UNCHANGED <<paramVars, state, remove_at_time, n_infected, rate, is_safe, netVars>>

\* the loop is over: rewire_network returns
rewire_network_returned ==
    /\ pc = "rewire"
    /\ obs.rewire.left = 0
    /\ pc' = "idle"
    /\ last' = "rewired"
    /\ UNCHANGED <<paramVars, cellVars, netVars, obs>>

rewire_network == rewire_network_called \/ rewire_pair \/ rewire_network_returned

----------------------------------------------------------------------------

\* the operations a driver calls on the network and the engine
Next == start_infection_at_center \/ reset \/ Step

Spec == Init /\ [][Next]_vars

\* a driver that seeds, resets and runs the simulation with an observer
NextRun == start_infection_at_center \/ reset \/ run

SpecRun == InitRun /\ [][NextRun]_vars

\* a caller that assigns cell states directly and resets
NextSet == cell_state_assigned \/ reset

\* a caller that invokes the state-change hook of the network itself
NextHook == cell_state_changed_called \/ start_infection_at_center \/ reset

SpecHook == InitHook /\ [][NextHook]_vars

SpecSet == InitSet /\ [][NextSet]_vars

\* a caller that infects cells one by one and asks for the epidemic type
NextQuery == cell_infected \/ reset \/ is_epidemic_called \/ epidemic_type_called

SpecQuery == InitQuery /\ [][NextQuery]_vars

\* a caller that builds groups of callbacks and calls their methods
NextGroup == group_constructed \/ group_notified \/ group_should_stop_simulation

SpecGroup == InitGroup /\ [][NextGroup]_vars

\* a caller that seeds, resets and rewires the lattice
NextRewire == start_infection_at_center \/ reset \/ rewire_network

SpecRewire == InitRewire /\ [][NextRewire]_vars


----------------------------------------------------------------------------
(* Vocabulary of the properties. *)

\* the values of `last` left by KineticMonteCarloSimulation.step_forwards
StepOps == {"extinct", "remove", "infect", "choice_error"}

\* number of entries of c's neighbour list that are currently I
InfectedEntries(c) ==
    Cardinality({i \in 1..Len(neighbours[c]) : state[neighbours[c][i]] = "I"})

\* the rate re-summed over the cells currently in state S
ResummedRate == SumSeq([i \in 1..NCells(n_x, n_y) |-> IF state[i - 1] = "S" THEN rate[i - 1] ELSE 0])

\* number of occurrences of c in a list
Occurrences(c, s) == Cardinality({i \in 1..Len(s) : s[i] = c})

NonDegenerate == n_x >= 3 /\ n_y >= 3

----------------------------------------------------------------------------
(* C1: after every seeding, engine step and reset, on a lattice of any     *)
(* dimensions, the global rate sum equals the rate re-summed over the      *)
(* cells in state S.                                                       *)
C1_RateSumIsResummedRate == sum_events_rates = ResummedRate

(* C2: every S cell with k infected neighbour entries has rate             *)
(* max(0, k*(alpha + beta*(k-1))), and every I or R cell has rate 0.       *)
C2_RateFormula ==
    \A c \in Cells :
        IF state[c] = "S"
        THEN LET k == InfectedEntries(c)
             IN  rate[c] = Max(0, k * (ALPHA + BETA * (k - 1)))
        ELSE rate[c] = 0

\* an infection left an S cell with two or more infected neighbour entries,
\* a non-zero synergy and a positive rate
C2_Witness ==
    /\ last = "infect"
    /\ BETA # 0
    /\ \E c \in Cells : state[c] = "S" /\ InfectedEntries(c) >= 2 /\ rate[c] > 0

(* C3: the per-state index partitions the cells: each cell occurs exactly  *)
(* once in the list of its state and in no other list, so the three        *)
(* lengths add up to n_x * n_y.                                            *)
C3_IndexPartitionsCells ==
    /\ \A c \in Cells : \A s \in States :
            Occurrences(c, cells_by_state[s]) = IF s = state[c] THEN 1 ELSE 0
    /\ \A s \in States : \A i \in 1..Len(cells_by_state[s]) : cells_by_state[s][i] \in Cells
    /\ Len(cells_by_state["S"]) + Len(cells_by_state["I"]) + Len(cells_by_state["R"]) = n_x * n_y

\* after an engine step all three lists are populated
C3_Witness ==
    /\ last \in StepOps
    /\ \A s \in States : Len(cells_by_state[s]) >= 1

(* C4: an engine step with an infected cell changes the state of exactly   *)
(* one cell, S->I or I->R, and no other cell's state; without an infected  *)
(* cell it only sets the extinct flag.                                     *)
C4_StepIsExactlyOneEvent ==
    [][last' \in StepOps =>
        IF Len(infected_cells) # 0
        THEN \E c \in Cells :
                /\ \/ state[c] = "S" /\ state'[c] = "I"
                   \/ state[c] = "I" /\ state'[c] = "R"
                /\ \A d \in Cells \ {c} : state'[d] = state[d]
        ELSE /\ extinct'
             /\ UNCHANGED <<cellVars, cells_by_state, sum_rates, time, shader_x, shader_y>>]_vars

(* C5: a removal event sets the time to the minimum removal deadline of    *)
(* the infected cells and removes an infected cell holding that deadline.  *)
C5_RemovalAtMinimalDeadline ==
    [][last' = "remove" =>
        /\ Len(infected_cells) # 0
        /\ time' = next_remove_time
        /\ \E c \in Cells :
            /\ state[c] = "I" /\ state'[c] = "R"
            /\ remove_at_time[c] = next_remove_time
            /\ \A d \in Cells : state[d] = "I" => remove_at_time[c] <= remove_at_time[d]
            /\ \A d \in Cells \ {c} : state'[d] = state[d]]_vars

\* a cell was removed while another one, infected later, is still infected
C5_Witness ==
    /\ last = "remove"
    /\ \E d \in Cells : state[d] = "I" /\ remove_at_time[d] > time

(* C6: an engine step is an infection event only when the rate sum exceeds *)
(* 1e-10 and time + delta_t < next_remove_time; it advances the time by    *)
(* delta_t and infects a threatened cell, which has an infected neighbour; *)
(* with a rate sum of at most 1e-10 the step is a removal event.           *)
C6_InfectionEvent ==
    [][/\ last' \in {"infect", "choice_error"} =>
            /\ AboveEpsilon(sum_events_rates)
            /\ \E delta_t \in 0..MaxDt :
                time + delta_t < next_remove_time /\ time' = time + delta_t
       /\ last' = "infect" =>
            \E c \in Cells :
                /\ state[c] = "S" /\ state'[c] = "I"
                /\ InSeq(c, threatened_cells)
                /\ ~BelowEpsilon(rate[c])
                /\ InfectedEntries(c) >= 1
       /\ (last' \in StepOps /\ Len(infected_cells) # 0 /\ ~AboveEpsilon(sum_events_rates))
            => last' = "remove"]_vars

\* an infection happened strictly after time 0 and strictly before the
\* deadline of the cell infected first
C6_Witness ==
    /\ last = "infect"
    /\ time > 0
    /\ Len(infected_cells) >= 2
    /\ time < remove_at_time[infected_cells[1]]

(* C7: no engine step decreases the time; the time only goes back, to 0,   *)
(* by reset.                                                               *)
C7_TimeNeverDecreases ==
    [][/\ last' \in StepOps => time' >= time
       /\ time' < time => (last' = "reset" /\ time' = 0)]_vars

\* the time has advanced by an infection and then by a removal
C7_Witness ==
    /\ last = "remove"
    /\ time > 0
    /\ \E c \in Cells : state[c] = "I" /\ 0 < remove_at_time[c] - INFECTION_TIME

(* C8: assigning a cell's state is rejected, leaving the cell and the      *)
(* network unchanged, unless the transition is S->I or I->R; assigning the *)
(* state the cell already has changes nothing.                             *)
C8_OnlyLegalTransitions ==
    [][last' = "set" =>
        \/ UNCHANGED <<cellVars, netVars>>
        \/ \E c \in Cells :
            /\ \/ state[c] = "S" /\ state'[c] = "I"
               \/ state[c] = "I" /\ state'[c] = "R"
            /\ \A d \in Cells \ {c} : state'[d] = state[d]]_vars

(* C9: Network.run on a network without infected cells fails before       *)
(* anything else happens: no observer notification, no engine step, and    *)
(* the network is unchanged.                                               *)
C9_RunWithoutInfectionFails ==
    [][/\ last' = "run_error" => UNCHANGED <<cellVars, netVars, pc, obs>>
       /\ (pc = "idle" /\ Len(infected_cells) = 0 /\ last' \notin {"seed", "reset"})
            => (last' = "run_error" /\ pc' = "idle" /\ obs' = obs)]_vars

\* run was refused on a network that an earlier run had left extinct
C9_Witness ==
    /\ last = "run_error"
    /\ extinct
    /\ Len(removed_cells) >= 1

(* C10: in every run the observer sees on_simulation_started once before   *)
(* any engine step, then per engine step one on_event_occurred followed by *)
(* one should_stop_simulation query, and on_simulation_finished once,      *)
(* after the last query, when the network is extinct or the query          *)
(* returned true.                                                          *)
C10_ObserverProtocol ==
    /\ obs.started = 0 => obs = NoObs /\ pc = "idle"
    /\ pc # "idle" => obs.started = 1 /\ obs.finished = 0
    /\ pc = "loop" => obs.events = obs.steps /\ obs.queries = obs.steps /\ ~obs.stop
    /\ pc = "event" => obs.events + 1 = obs.steps /\ obs.queries = obs.events
    /\ pc = "query" => obs.events = obs.steps /\ obs.queries + 1 = obs.events
    /\ pc = "finish" => obs.events = obs.steps /\ obs.queries = obs.steps
    /\ (pc = "idle" /\ obs.started = 1) =>
            /\ obs.finished = 1
            /\ obs.events = obs.steps /\ obs.queries = obs.steps
            /\ (obs.stop \/ last # "finished" \/ extinct)

----------------------------------------------------------------------------
(* Claims C11..C20. *)

\* Network.run has returned through on_simulation_finished and the observer
\* answered no stop request during that run
ReturnedUnstopped == last = "finished" /\ ~obs.stop

\* C11: a run from a seeded lattice whose observer never requests a stop
\* returns with the extinct flag true, no cell in state I and at least one
\* cell in state R
C11_RunEndsExtinct ==
    ReturnedUnstopped =>
        /\ extinct
        /\ Len(infected_cells) = 0
        /\ Len(removed_cells) > 0

\* C12: the stop predicate is polled exactly once after each engine step and
\* never during one; once it has answered true the run performs no further
\* engine step; with EarlyStoppingCallback(kind) the run returns with
\* is_epidemic(kind) true or with the network extinct
C12_StopPolledOncePerStep ==
    /\ pc \in {"loop", "finish", "idle"} => obs.queries = obs.steps
    /\ pc \in {"event", "query"} => obs.queries + 1 = obs.steps
    /\ obs.stop => pc \in {"finish", "idle"} /\ last \notin StepOps
    /\ (last = "finished" /\ obs.callback # "Callback") =>
            (is_epidemic(obs.callback) = Return(TRUE) \/ extinct)

\* no cell has been seeded: every cell is susceptible
AllSusceptible == \A c \in Cells : state[c] = "S"

\* C13: the engine step called on a network with zero infected cells on
\* which no cell was ever seeded (all cells S) leaves the network,
\* including its extinct flag, unchanged
C13_StepOnUnseededLeavesNetwork ==
    [][(AllSusceptible /\ last' \in StepOps) => UNCHANGED <<cellVars, netVars>>]_vars

\* the shader arrays read entry by entry
FullX == \A i \in 0..(n_x - 1) : shader_x[i] = TRUE
FullY == \A j \in 0..(n_y - 1) : shader_y[j] = TRUE

\* C14: is_epidemic("2D") is true iff both shader arrays are fully true,
\* is_epidemic("1D") iff exactly one of them is; epidemic_type() is "2D",
\* "1D" or "None" in agreement with the two (at most one of them holds);
\* is_epidemic of any other type raises and no query changes the network
C14_EpidemicQueries ==
    [][/\ is_epidemic("2D") = Return(FullX /\ FullY)
       /\ is_epidemic("1D") = Return((FullX /\ ~FullY) \/ (FullY /\ ~FullX))
       /\ ~(is_epidemic("1D").value /\ is_epidemic("2D").value)
       /\ epidemic_type = (IF is_epidemic("2D").value THEN "2D"
                           ELSE IF is_epidemic("1D").value THEN "1D" ELSE "None")
       /\ \A type \in EpidemicTypes \ {"1D", "2D"} : is_epidemic(type).raised # ""
       /\ last' \in {"is_epidemic", "NotImplementedError", "epidemic_type"}
            => UNCHANGED <<paramVars, cellVars, netVars>>
      ]_vars

\* is_epidemic was asked on a lattice with a one-dimensional epidemic
C14_Witness ==
    /\ last = "is_epidemic"
    /\ n_x >= 2 /\ n_y >= 2
    /\ FullX /\ ~FullY

\* some cell of column i (of row j) is infected or removed
InfectedAtX(i) == \E c \in Cells : XOf(c, n_y) = i /\ state[c] \in {"I", "R"}
InfectedAtY(j) == \E c \in Cells : YOf(c, n_y) = j /\ state[c] \in {"I", "R"}

\* C15: shader_x[i] is true iff some cell with x == i is I or R, likewise
\* shader_y[j]; an entry once true stays true after every seeding and
\* engine step and only reset clears it
C15_ShadersTrackInfection ==
    [][/\ \A i \in 0..(n_x - 1) : shader_x[i] <=> InfectedAtX(i)
       /\ \A j \in 0..(n_y - 1) : shader_y[j] <=> InfectedAtY(j)
       /\ last' # "reset" =>
            /\ \A i \in 0..(n_x - 1) : shader_x[i] => shader_x'[i]
            /\ \A j \in 0..(n_y - 1) : shader_y[j] => shader_y'[j]
       /\ last' = "reset" =>
            /\ \A i \in 0..(n_x - 1) : ~shader_x'[i]
            /\ \A j \in 0..(n_y - 1) : ~shader_y'[j]
      ]_vars

\* an engine step has infected a cell off the centre column while a cell
\* of the lattice is already removed
C15_Witness ==
    /\ last = "infect"
    /\ n_x >= 3 /\ n_y >= 3
    /\ Len(removed_cells) > 0
    /\ \E i \in 0..(n_x - 1) : i # n_x \div 2 /\ shader_x[i]

\* C16: reset in any reachable state leaves every cell S with
\* infected-neighbour count 0, rate 0 and safe flag true, time 0, rate sum
\* 0, extinct false, both shader arrays all false, the S bucket holding all
\* cells in construction order and every neighbour list as it was, which
\* without rewiring is the freshly constructed network
C16_ResetRestoresFreshNetwork ==
    [][last' = "reset" =>
        /\ \A c \in Cells :
            /\ state'[c] = "S"
            /\ n_infected'[c] = 0
            /\ rate'[c] = 0
            /\ is_safe'[c] = TRUE
            /\ remove_at_time'[c] = NONE
            /\ neighbours'[c] = neighbours[c]
        /\ time' = 0 /\ sum_rates' = 0 /\ extinct' = FALSE
        /\ \A i \in 0..(n_x - 1) : shader_x'[i] = FALSE
        /\ \A j \in 0..(n_y - 1) : shader_y'[j] = FALSE
        /\ cells_by_state'["S"] = [k \in 1..NCells(n_x, n_y) |-> k - 1]
        /\ cells_by_state'["I"] = <<>> /\ cells_by_state'["R"] = <<>>
        /\ neighbours' = generate_cells(n_x, n_y)
        /\ UNCHANGED paramVars
      ]_vars

\* the network has been reset after a run that an early stop ended with
\* several engine steps made
C16_Witness ==
    /\ last = "reset"
    /\ obs.stop /\ obs.finished = 1 /\ obs.steps >= 2
    /\ n_x >= 3 /\ n_y >= 3

\* ALPHA = 0 and BETA = 0: nothing is transmitted
NoTransmission == ALPHA = 0 /\ BETA = 0

\* C18: with alpha = 0 and beta = 0 a run from a lattice seeded at the
\* centre at time 0 performs exactly one event, the removal of the seeded
\* cell at time exactly tau; no other cell ever leaves S; the run ends
\* extinct; with n_x >= 2 and n_y >= 2 epidemic_type() is "None" throughout
C18_NoTransmissionRun ==
    NoTransmission =>
        /\ \A c \in Cells \ {CentreCell} : state[c] = "S"
        /\ (n_x >= 2 /\ n_y >= 2) => epidemic_type = NoType
        /\ (pc # "idle" /\ obs.entry_time = 0 /\ obs.steps >= 1) =>
                /\ state[CentreCell] = "R"
                /\ time = INFECTION_TIME
        /\ (ReturnedUnstopped /\ obs.entry_time = 0) =>
                /\ extinct
                /\ state[CentreCell] = "R"
                /\ time = INFECTION_TIME
                /\ obs.steps = 2

\* the notifications a group forwards
Notifications == {"on_simulation_started", "on_event_occurred", "on_simulation_finished"}

\* C19: CallbacksGroup forwards on_simulation_started, on_event_occurred and
\* on_simulation_finished to every member, once each and in list order; its
\* should_stop_simulation returns true iff at least one member answers
\* true, and false for an empty group or one constructed from None
C19_GroupForwardsAndOrs ==
    [][/\ last' = "CallbacksGroup" =>
            /\ obs'.arg.type = "NoneType" => obs'.members = <<>>
            /\ obs'.arg.type = "list" => obs'.members = obs'.arg.value
       /\ last' \in Notifications =>
            /\ Len(obs'.log) = Len(obs.log) + Len(obs.members)
            /\ \A i \in 1..Len(obs.log) : obs'.log[i] = obs.log[i]
            /\ \A i \in 1..Len(obs.members) :
                    obs'.log[Len(obs.log) + i] = <<last', obs.members[i]>>
       /\ last' = "should_stop_simulation" =>
            /\ obs'.stop <=> (\E i \in 1..Len(obs.members) : obs'.answers[i])
            /\ obs.members = <<>> => ~obs'.stop
      ]_vars

\* a group of two different callbacks has been asked and only its second
\* member asks for the stop
C19_Witness ==
    /\ last = "should_stop_simulation"
    /\ Len(obs.members) = 2 /\ obs.members[1] # obs.members[2]
    /\ obs.answers = <<FALSE, TRUE>>
    /\ obs.stop

\* the cells to the west, east, north and south of cell d on the torus
Directional(d) ==
    LET x == XOf(d, n_y)
        y == YOf(d, n_y)
    IN  << CellAt((x - 1 + n_x) % n_x, y, n_y),
           CellAt((x + 1) % n_x, y, n_y),
           CellAt(x, (y + 1) % n_y, n_y),
           CellAt(x, (y - 1 + n_y) % n_y, n_y) >>

\* C20: after construction the neighbour list of every cell has exactly 4
\* entries, the cells to its west, east, north and south with wrap-around,
\* each once per direction (the same cell several times when a dimension
\* is 1 or 2)
C20_FourDirectionalNeighbours ==
    \A d \in Cells :
        /\ Len(neighbours[d]) = 4
        /\ \A e \in Cells :
            Cardinality({i \in 1..4 : neighbours[d][i] = e})
                = Cardinality({i \in 1..4 : Directional(d)[i] = e})

\* a 2 by 1 lattice has been constructed: each cell is twice its own
\* neighbour and twice the neighbour of the other
C20_Witness ==
    /\ last = "init"
    /\ n_x = 2 /\ n_y = 1
    /\ Cardinality({i \in 1..4 : neighbours[0][i] = 0}) = 2
    /\ Cardinality({i \in 1..4 : neighbours[0][i] = 1}) = 2

----------------------------------------------------------------------------
(* Claims C21..C30. *)

\* rewire_network has returned from a call made with the given probability
Rewired(probability) == last = "rewired" /\ obs.rewire.probability = probability

\* the call of rewire_network was made on the lattice as constructed
RewiredFresh == obs.rewire.before = generate_cells(n_x, n_y)

\* C21: after rewire_network with probability 1 on a freshly built lattice
\* every cell has as many neighbour entries as before the rewiring
C21_RewireKeepsNeighbourCounts ==
    (Rewired(100) /\ RewiredFresh) =>
        \A c \in Cells : Len(neighbours[c]) = Len(obs.rewire.before[c])

\* the number of neighbour-list entries summed over all cells
TotalEntries(nb) == SumSeq([k \in 1..NCells(n_x, n_y) |-> Len(nb[k - 1])])

\* C22: rewire_network conserves the overall edge count for every
\* probability and every outcome of the draws, and with probability 0 it
\* leaves every neighbour list identical
C22_RewireConservesEdgeCount ==
    /\ last \in {"rewired", "rewire_error"} =>
            TotalEntries(neighbours) = TotalEntries(obs.rewire.before)
    /\ Rewired(0) => neighbours = obs.rewire.before

\* a rewiring with probability 1 has returned with changed neighbour lists
C22_Witness ==
    /\ Rewired(100)
    /\ NCells(n_x, n_y) >= 2
    /\ neighbours # obs.rewire.before

\* a pass of the loop of rewire_network has called rewire_to_neighbour
\* on cell obs'.rewire.from with new_cell obs'.rewire.to
RewirePairDone == last' \in {"rewire_pair", "rewire_error"} /\ obs'.rewire.pairs = obs.rewire.pairs + 1

\* C23: after construction and after any sequence of rewire_to_neighbour
\* calls, b occurs in a's neighbour list as often as a occurs in b's; a
\* call on a cell with no neighbours returns failure and changes no list
C23_AdjacencyBidirectional ==
    [][/\ \A a, b \in Cells :
            Occurrences(b, neighbours[a]) = Occurrences(a, neighbours[b])
       /\ RewirePairDone =>
            /\ (Len(neighbours[obs'.rewire.from]) = 0) <=> ~obs'.rewire.success
            /\ ~obs'.rewire.success => UNCHANGED neighbours
            /\ last' = "rewire_pair"
      ]_vars

\* rewire_to_neighbour has returned failure on a cell without neighbours
C23_Witness ==
    /\ last = "rewire_pair"
    /\ ~obs.rewire.success
    /\ Len(neighbours[obs.rewire.from]) = 0
    /\ \E c \in Cells : Len(neighbours[c]) > 4

\* C24: in rewire_network a drawn pair with source == target is skipped,
\* changing no neighbour list and no rate, and so is a pair whose source
\* has no neighbours
C24_SelfPairsSkipped ==
    [][(RewirePairDone /\ (obs'.rewire.from = obs'.rewire.to \/ Len(neighbours[obs'.rewire.from]) = 0))
        => UNCHANGED <<cellVars, netVars>>]_vars

\* the values of `last` left by rewire_network
RewireOps == {"rewire_network", "rewire_pair", "rewire_error", "rewired"}

\* C25: rewire_network changes neighbour lists only: every cell's state,
\* infected-neighbour count, rate and safe flag, the rate sum, the time, the
\* extinct flag, the shaders and the per-state index are as before the
\* call, also when some cells are infected
C25_RewireChangesListsOnly ==
    [][last' \in RewireOps =>
        UNCHANGED <<paramVars, state, remove_at_time, n_infected, rate, is_safe, netVars>>]_vars

\* a rewiring has returned on a lattice with an infected cell and left an
\* infected-neighbour count that the new neighbour lists do not give
C25_Witness ==
    /\ last = "rewired"
    /\ Len(infected_cells) > 0
    /\ neighbours # obs.rewire.before
    /\ \E c \in Cells : n_infected[c] # InfectedEntries(c)

\* C26: with tau > 0, in every state reachable by seeding, engine steps and
\* reset every value exported by to_array() lies in [0, 1]: 0 for an S
\* cell, 1 for an R cell, between 0 and 1 inclusive for an I cell
C26_ArrayValuesInUnitInterval ==
    INFECTION_TIME > 0 =>
        /\ \A v \in to_array : 0 <= v.num /\ v.num <= v.den
        /\ \A c \in Cells :
            /\ state[c] = "S" => \A v \in array_value(c) : v.num = 0
            /\ state[c] = "R" => \A v \in array_value(c) : v.num = v.den

\* C27: array_value of a cell in state I equals (current time - time at
\* which the cell became infected) / tau and lies strictly inside (0, 1)
C27_InfectedValueStrictlyInside ==
    INFECTION_TIME > 0 =>
        \A c \in Cells :
            state[c] = "I" =>
                \A v \in array_value(c) :
                    /\ v.num * INFECTION_TIME = (time - (remove_at_time[c] - INFECTION_TIME)) * v.den
                    /\ 0 < v.num /\ v.num < v.den

\* what C28 states of the network after a seeding of an all-S lattice
SeededAtCentre ==
    /\ state' = [c \in Cells |-> IF c = CentreCell THEN "I" ELSE "S"]
    /\ CentreCell = CellAt(n_x \div 2, n_y \div 2, n_y)
    /\ remove_at_time'[CentreCell] = time + INFECTION_TIME
    /\ shader_x' = [i \in 0..(n_x - 1) |-> i = n_x \div 2]
    /\ shader_y' = [j \in 0..(n_y - 1) |-> j = n_y \div 2]
    /\ \A c \in Cells :
        /\ n_infected'[c] = Occurrences(CentreCell, neighbours[c])
        /\ rate'[c] = IF c = CentreCell THEN 0
                      ELSE Max(0, n_infected'[c] * (ALPHA + BETA * (n_infected'[c] - 1)))
    /\ sum_rates' = ResummedRate'

\* C28: start_infection_at_center() on a freshly constructed or reset
\* lattice leaves exactly the centre cell in state I with removal deadline
\* time + tau, all other cells S, exactly the centre's shader entries true,
\* each neighbour's count and rate updated and the rate sum equal to the
\* sum of the S cells' rates; called when the centre is already I it
\* changes nothing
C28_SeedingAtCentre ==
    [][last' = "seed" =>
        /\ AllSusceptible => SeededAtCentre
        /\ state[CentreCell] = "I" => UNCHANGED <<cellVars, netVars>>
      ]_vars

\* C29: a Snapshot records for every cell its infection-start time: None iff
\* the cell has not been infected since the last reset (it is S), and for a
\* cell that is I or R the simulated time at which it became infected
C29_SnapshotInfectionTimes ==
    [][\A c \in Cells :
        /\ (infected_times(c)' = {NONE}) <=> (state'[c] = "S")
        /\ (state[c] # "I" /\ state'[c] = "I") => infected_times(c)' = {time' * Ulps}
        /\ (state[c] \in {"I", "R"} /\ state'[c] \in {"I", "R"})
              => infected_times(c)' = infected_times(c)
      ]_vars

\* C30: in every reachable state every cell's safe flag is true exactly
\* when the cell's own rate of getting infected is below 1e-10, whatever the
\* state of the cell
C30_SafeFlagTracksRate ==
    \A c \in Cells : is_safe[c] <=> BelowEpsilon(rate[c])

----------------------------------------------------------------------------
(* Claims C31..C40. *)

\* the direct call cell_state_changed(cell, old, new) just made found the
\* cell absent from the old list or already present in the new list
HookDefect ==
    /\ last' = "cell_state_changed"
    /\ LET c == obs'.arg.value[1]
           old_state == obs'.arg.value[2]
           new_state == obs'.arg.value[3]
       IN  /\ old_state # new_state
           /\ ~InSeq(c, cells_by_state[old_state]) \/ InSeq(c, cells_by_state[new_state])

\* C31: when cell_state_changed(cell, old, new) finds the cell absent from
\* the old-state list or already present in the new-state list, the defect
\* is reported and the per-state lists are left exactly as they were
C31_HookDefectLeavesIndex ==
    [][HookDefect => (obs'.log # <<>> /\ cells_by_state' = cells_by_state)]_vars

\* every cell has four distinct neighbours and is not its own neighbour
FourDistinctNeighbours ==
    \A c \in Cells :
        /\ Len(neighbours[c]) = 4
        /\ \A i, j \in 1..4 : i # j => neighbours[c][i] # neighbours[c][j]
        /\ ~InSeq(c, neighbours[c])

\* C32: on a lattice with n_x >= 3 and n_y >= 3 that has not been rewired
\* every cell has four distinct neighbours other than itself, and after
\* every seeding, engine step and reset the global rate sum equals the
\* rate re-summed over the S cells
C32_RateSumOnRegularLattice ==
    NonDegenerate => (FourDistinctNeighbours /\ sum_events_rates = ResummedRate)

\* on a 3 x 3 lattice an infection left a positive rate sum made of S cells
\* with different numbers of infected neighbours
C32_Witness ==
    /\ NonDegenerate
    /\ last = "infect"
    /\ sum_events_rates > 0
    /\ \E c, d \in Cells : state[c] = "S" /\ state[d] = "S" /\ n_infected[c] = 1 /\ n_infected[d] = 2

\* C33: infected cells are removed in the order in which they were
\* infected: the list of infected cells is ordered by non-decreasing
\* removal deadline, so its first element, the cell the engine removes,
\* holds the minimal deadline
C33_InfectedListOrderedByDeadline ==
    /\ \A i, j \in 1..Len(infected_cells) :
            i < j => remove_at_time[infected_cells[i]] <= remove_at_time[infected_cells[j]]
    /\ Len(infected_cells) # 0 => remove_at_time[infected_cells[1]] = next_remove_time

\* three cells are infected, with at least two different deadlines
C33_Witness ==
    /\ last \in StepOps
    /\ Len(infected_cells) >= 3
    /\ remove_at_time[infected_cells[1]] < remove_at_time[infected_cells[3]]

\* C34: each infected cell's removal deadline d is its infection time plus
\* tau and satisfies time <= d <= time + tau; the cell is moved to R by a
\* step that sets the time to exactly d, never earlier or later
C34_DeadlineIsInfectionTimePlusTau ==
    [][\A c \in Cells :
        /\ (state[c] # "I" /\ state'[c] = "I") => remove_at_time'[c] = time' + INFECTION_TIME
        /\ (state[c] = "I" /\ state'[c] = "I") => remove_at_time'[c] = remove_at_time[c]
        /\ (state[c] = "I" /\ state'[c] = "R") => time' = remove_at_time[c]
        /\ state'[c] = "I" => (time' <= remove_at_time'[c] /\ remove_at_time'[c] <= time' + INFECTION_TIME)
      ]_vars

\* a cell infected after time 0 has just been removed, tau after its infection
C34_Witness ==
    /\ last = "remove"
    /\ INFECTION_TIME > 0
    /\ time > INFECTION_TIME
    /\ \E c \in Cells : state[c] = "I"

\* C35: every cell's incrementally maintained infected-neighbour count
\* equals the number of entries of its neighbour list that are currently I,
\* counted with multiplicity, whatever the state of the cell, and so lies
\* between 0 and the length of the list
C35_CountIsInfectedEntries ==
    \A c \in Cells :
        /\ n_infected[c] = InfectedEntries(c)
        /\ 0 <= n_infected[c] /\ n_infected[c] <= Len(neighbours[c])

\* after a removal an S cell, an I cell and an R cell each still count an
\* infected neighbour
C35_Witness ==
    /\ last = "remove"
    /\ \A s \in States : \E c \in Cells : state[c] = s /\ n_infected[c] >= 1

\* Network.percentage_safe and Network.percentage_removed, as exact fractions
percentage_safe == [num |-> 100 * Len(safe_cells), den |-> NCells(n_x, n_y)]
percentage_removed == [num |-> 100 * Len(removed_cells), den |-> NCells(n_x, n_y)]

C37_ExtinctMeansNoInfection ==
    extinct => (Len(infected_cells) = 0 /\ \A c \in Cells : state[c] # "I")

\* how far the cells have gone along S -> I -> R: one for every I cell and
\* two for every R cell
Progress ==
    Cardinality({c \in Cells : state[c] = "I"}) + 2 * Cardinality({c \in Cells : state[c] = "R"})

\* C38: under engine steps each cell's state only progresses S -> I -> R and
\* a cell in R never changes again, every event moves exactly one cell one
\* stage on, and so a run performs at most 2 * n_x * n_y state-changing
\* events
C38_StatesOnlyProgress ==
    [][last' \in StepOps =>
        /\ \A c \in Cells :
            \/ state'[c] = state[c]
            \/ state[c] = "S" /\ state'[c] = "I"
            \/ state[c] = "I" /\ state'[c] = "R"
        /\ Progress' = Progress + (IF last' \in {"infect", "remove"} THEN 1 ELSE 0)
        /\ Progress' <= 2 * NCells(n_x, n_y)
        /\ obs'.steps - (IF last' \in {"extinct", "choice_error"} THEN 1 ELSE 0)
              <= 2 * NCells(n_x, n_y)
      ]_vars

\* a run has taken every cell of a lattice of several cells from S to R
C38_Witness ==
    /\ last = "finished"
    /\ NCells(n_x, n_y) >= 2
    /\ \A c \in Cells : state[c] = "R"
    /\ obs.steps = 2 * NCells(n_x, n_y)

\* C39: once is_epidemic("2D") is true it stays true after every engine
\* step (and seeding) until reset, and is_epidemic("1D") is false from then
\* on, so a true is_epidemic("1D") is lost when the epidemic becomes 2D; the
\* seeding of a 1 x 1 lattice takes epidemic_type() from "None" directly to
\* "2D"
C39_TwoDimensionalIsStable ==
    [][/\ (is_epidemic("2D").value /\ last' # "reset") =>
            (is_epidemic("2D")' = Return(TRUE) /\ is_epidemic("1D")' = Return(FALSE))
       /\ (is_epidemic("1D").value /\ is_epidemic("2D")'.value) => ~is_epidemic("1D")'.value
       /\ (last' = "seed" /\ AllSusceptible /\ n_x = 1 /\ n_y = 1) =>
            (epidemic_type = NoType /\ epidemic_type' = TwoDimensionalType)
      ]_vars

\* on the 1 x 1 lattice the seeded cell, which took the type from "None" to
\* "2D", has been removed by an engine step and the type is still "2D"
C39_Witness ==
    /\ n_x = 1 /\ n_y = 1
    /\ INFECTION_TIME > 0
    /\ last = "remove"
    /\ epidemic_type = TwoDimensionalType
    /\ is_epidemic("1D") = Return(FALSE)

\* C40: in a run on_event_occurred is fired once per engine step
\* invocation, the final one that only detects the extinction included: a
\* run that ends with the network extinct has fired one notification more
\* than the cell state changes it made, and a run ended by a stop request
\* before that has fired as many notifications as state changes
C40_EventsPerStateChange ==
    last = "finished" =>
        /\ obs.events = obs.steps
        /\ extinct => obs.events = obs.changes + 1
        /\ ~extinct => (obs.stop /\ obs.events = obs.changes)
====
